---------------------------- MODULE Spec2Model ----------------------------
(***************************************************************************)
(* A model of nice_tools: the multi-sink logger (logger_tools.py), the     *)
(* thread helpers (thread_tools.py) and the timeout decorator              *)
(* (func_tools.py).                                                        *)
(*                                                                         *)
(* Python strings are TLA+ strings.  Optional values are None or Some(x).  *)
(* The character U+001B (written '\033' and "\x1b" in the source) is the   *)
(* one-character string ESC.                                               *)
(***************************************************************************)
EXTENDS Integers, Sequences, FiniteSets, TLC

VARIABLES
    pc,        \* position of the application thread: in NiceLogger.__init__, ready, blocked, failed
    self,      \* the fields of the object under construction / in use
    handlers,  \* logging.Logger.handlers of the NiceLogger, in attachment order
    err,       \* the exception raised to the application thread, or "none"
    dirs,      \* directories that exist in the working directory
    files,     \* files that exist: path -> sequence of texts written to it
    console,   \* lines the console sink wrote to stderr
    jobs,      \* executions of a delivery (TelegramHandler.send, BotLogger._send_*), one per emit
    sent,      \* calls the remote transport accepted, in order
    diag,      \* what print(e) wrote to the diagnostic stream, in order
    calls,     \* logging calls that have returned to the application thread
    mm,        \* _make_message under test: its inputs and its output
    tasks,     \* thread_tools: callables handed to a thread or a pool
    tcall,     \* thread_tools: the call the application thread is in / has made
    alarm,     \* signal.alarm: seconds until the process receives SIGALRM, 0 when none is pending
    sigalrm,   \* signal.signal: the handler installed for SIGALRM
    frames,    \* wrapped calls (timeout_decorator) that are running, outermost first
    exc,       \* the exception travelling up the main thread, if any
    last       \* the wrapped call that exited most recently, and how

loggerVars == <<pc, self, handlers, err, dirs, files, console, jobs, sent, diag, calls>>
threadVars == <<tasks, tcall>>
timeoutVars == <<alarm, sigalrm, frames, exc, last>>
vars == <<pc, self, handlers, err, dirs, files, console, jobs, sent, diag, calls, mm, tasks, tcall, alarm, sigalrm, frames, exc, last>>

(***************************************************************************)
(* Bounds of the model.                                                    *)
(***************************************************************************)
MaxCalls == 1      \* logging calls made on a NiceLogger followed from its construction
MaxSinkCalls == 2  \* logging calls made on an object whose notification sink is followed
MaxTasks == 2      \* callables submitted through thread_tools
MaxDepth == 2      \* wrapped calls running inside one another
MaxElapsed == 3    \* seconds a wrapped call is followed for

(***************************************************************************)
(* Python values.                                                          *)
(***************************************************************************)
None == [none |-> TRUE]
Some(x) == [v |-> x]

ESC == "^"

RECURSIVE Pad(_)
\* a text of n characters
Pad(n) == IF n = 0 THEN ""
          ELSE IF n % 2 = 0 THEN LET h == Pad(n \div 2) IN h \o h
          ELSE "x" \o Pad(n - 1)

RECURSIVE CountEscFrom(_, _)
CountEscFrom(s, i) == IF i > Len(s) THEN 0
                      ELSE (IF SubSeq(s, i, i) = ESC THEN 1 ELSE 0) + CountEscFrom(s, i + 1)

\* the number of U+001B characters in s
CountEsc(s) == CountEscFrom(s, 1)

\* str(x) of an Optional[str]
PyStr(x) == IF x = None THEN "None" ELSE x.v

RECURSIVE JoinInts(_)
\* ", ".join(repr(i) for i in s)
JoinInts(s) == IF Len(s) = 0 THEN ""
               ELSE IF Len(s) = 1 THEN ToString(s[1])
               ELSE ToString(s[1]) \o ", " \o JoinInts(Tail(s))

\* repr of a tuple of ints: "(1,)", "(1, 2)"
ReprTuple(s) == IF Len(s) = 1 THEN "(" \o ToString(s[1]) \o ",)"
                ELSE "(" \o JoinInts(s) \o ")"

RECURSIVE JoinItems(_)
JoinItems(kw) == IF Len(kw) = 0 THEN ""
                 ELSE LET item == "'" \o kw[1][1] \o "': " \o ToString(kw[1][2])
                      IN  IF Len(kw) = 1 THEN item ELSE item \o ", " \o JoinItems(Tail(kw))

\* repr of a dict str -> int, in insertion order: "{'k': 1}"
ReprDict(kw) == "{" \o JoinItems(kw) \o "}"

(***************************************************************************)
(* logger_tools._make_message                                              *)
(***************************************************************************)
_FORMAT == "%(asctime)s - (%(lineno)d):[%(levelname)s] --> %(message)s"

\* a composition that puts the keyword values before the positional ones
_make_message_swapped(msg, f_name, args, kwargs) ==
    LET m0 == "[" \o PyStr(f_name) \o "] - " \o msg
        m1 == IF Len(kwargs) > 0 THEN m0 \o " | " \o ReprDict(kwargs) ELSE m0
    IN  IF Len(args) > 0 THEN m1 \o " | " \o ReprTuple(args) ELSE m1

_make_message(msg, f_name, args, kwargs) ==
    LET m0 == "[" \o PyStr(f_name) \o "] - " \o msg
        m1 == IF Len(args) > 0 THEN m0 \o " | " \o ReprTuple(args) ELSE m0
    IN  IF Len(kwargs) > 0 THEN m1 \o " | " \o ReprDict(kwargs) ELSE m1


(***************************************************************************)
(* logging.Formatter: %-style rendering of a record through a template.    *)
(* A record is [asctime, lineno, levelname, funcName, message, exc_text];  *)
(* exc_text is None unless the call asked for exception information.       *)
(***************************************************************************)
RECURSIVE FindChar(_, _, _)
\* the index of the first c in s at or after i, or Len(s) + 1
FindChar(s, c, i) == IF i > Len(s) THEN i
                     ELSE IF SubSeq(s, i, i) = c THEN i
                     ELSE FindChar(s, c, i + 1)

RECURSIVE PercentFormatFrom(_, _, _)
\* t[i..] % record.__dict__ for the conversions %(key)s and %(key)d
PercentFormatFrom(t, i, record) ==
    IF i > Len(t) THEN ""
    ELSE IF SubSeq(t, i, i + 1) = "%("
         THEN LET close == FindChar(t, ")", i + 2)
              IN  record[SubSeq(t, i + 2, close - 1)] \o PercentFormatFrom(t, close + 2, record)
         ELSE LET next == FindChar(t, "%", i + 1)
              IN  SubSeq(t, i, next - 1) \o PercentFormatFrom(t, next, record)

PercentFormat(t, record) == PercentFormatFrom(t, 1, record)

\* logging.Formatter(fmt).format(record)
Formatter_format(fmt, record) ==
    LET s == PercentFormat(fmt, record)
    IN  IF record.exc_text = None THEN s ELSE s \o "\n" \o record.exc_text.v

(***************************************************************************)
(* ColoredFormatter                                                        *)
(***************************************************************************)
Levels == {"DEBUG", "INFO", "WARNING", "ERROR", "CRITICAL"}

grey     == ESC \o "[90m"
blue     == ESC \o "[94m"
yellow   == ESC \o "[93m"
red      == ESC \o "[91m"
bold_red == ESC \o "[31;1m"
reset    == ESC \o "[0m"

LevelColor(level) ==
    CASE level = "DEBUG"    -> blue
      [] level = "INFO"     -> grey
      [] level = "WARNING"  -> yellow
      [] level = "ERROR"    -> red
      [] level = "CRITICAL" -> bold_red

\* ColoredFormatter.__init__: self.formats
ColoredFormatter(name, fmt, colored) ==
    LET format == "[" \o name \o "] - " \o fmt
    IN  IF colored
        THEN [level \in Levels |-> LevelColor(level) \o format \o reset]
        ELSE [level \in Levels |-> format]

\* ColoredFormatter.format
ColoredFormatter_format(formats, record) ==
    Formatter_format(formats[record.levelname], record)

TelegramHandler_fmt == "[%(levelname)s]\n%(lineno)d - %(funcName)s:\n\n%(message)s"

\* TelegramHandler.format
TelegramHandler_format(fmt, record) == Formatter_format(fmt, record)

(***************************************************************************)
(* The file system the program sees: directories, and files as the texts   *)
(* written to them.                                                        *)
(***************************************************************************)
NoFiles == [p \in {} |-> <<>>]

\* open(path, 'w') then write(text)
WriteFile(fs, path, text) ==
    [p \in DOMAIN fs \cup {path} |-> IF p = path THEN <<text>> ELSE fs[p]]

\* open(path, 'a'): the file exists afterwards, its content kept
TouchFile(fs, path) ==
    [p \in DOMAIN fs \cup {path} |-> IF p \in DOMAIN fs THEN fs[p] ELSE <<>>]

\* a line appended to an open file
AppendFile(fs, path, text) ==
    [p \in DOMAIN fs \cup {path} |->
        IF p = path THEN (IF p \in DOMAIN fs THEN Append(fs[p], text) ELSE <<text>>) ELSE fs[p]]

(***************************************************************************)
(* NiceLogger.__init__, one action per stage of the constructor.           *)
(***************************************************************************)
\* the sinks as the constructor builds them
ConsoleHandler(name, fmt, colored) ==
    [kind |-> "console", formats |-> ColoredFormatter(name, fmt, colored)]

\* a file sink that takes the logger's colorize flag
FileFormatter_colored(name, fmt, colored) == ColoredFormatter(name, fmt, colored)

\* the formatter of the file sink
FileFormatter(name, fmt, colored) == ColoredFormatter(name, fmt, FALSE)

\* the filename handed to TimedRotatingFileHandler
LogFileName(name, log_folder) == "logs/" \o name \o "-logs"

FileHandler(name, fmt, colored, log_folder) ==
    [kind |-> "file", filename |-> LogFileName(name, log_folder),
     formats |-> FileFormatter(name, fmt, colored)]

\* TelegramHandler.__init__
TelegramHandler(bot_token, chat_ids, run_async) ==
    [kind |-> "telegram", bot |-> bot_token, chat_ids |-> chat_ids,
     fmt |-> TelegramHandler_fmt, run_async |-> run_async]

\* the directory part of a path "dir/file"
RECURSIVE DirName(_)
DirName(path) ==
    IF Len(path) = 0 THEN ""
    ELSE IF SubSeq(path, Len(path), Len(path)) = "/" THEN SubSeq(path, 1, Len(path) - 1)
    ELSE DirName(SubSeq(path, 1, Len(path) - 1))

\* lines 153-157: the arguments become fields; the constructor's locals are kept with them
NiceLogger_init(name, fmt, enable_file, enable_telegram, telegram_token, telegram_chat_ids, tele_run_async, colored, log_folder) ==
    /\ pc = "new"
    /\ self' = [kind |-> "NiceLogger", name |-> name, fmt |-> fmt, colored |-> colored,
                log_folder |-> log_folder, arg_enable_telegram |-> enable_telegram,
                enable_file |-> enable_file, enable_telegram |-> enable_telegram,
                telegram_token |-> telegram_token, telegram_chat_ids |-> telegram_chat_ids,
                tele_run_async |-> tele_run_async]
    /\ pc' = "handle_telegram"
    /\ UNCHANGED <<handlers, err, dirs, files, console, jobs, sent, diag, calls>>

\* line 191: what counts as missing chat ids
ChatIdsMissing(chat_ids) == chat_ids = None

\* a validation that accepts a missing token
TokenMissing_never(token) == FALSE

\* line 188: what counts as a missing token
TokenMissing(token) == token = None

\* a logger that attaches the notification sink only on the explicit flag
ImplicitEnable_never(token, chat_ids) == FALSE

\* line 194: credential and destinations both supplied
ImplicitEnable(token, chat_ids) == chat_ids # None /\ token # None

\* __handle_telegram
NiceLogger_handle_telegram ==
    /\ pc = "handle_telegram"
    /\ IF self.enable_telegram /\ TokenMissing(self.telegram_token)
       THEN /\ err' = "ValueError"
            /\ pc' = "failed"
            /\ self' = self
       ELSE IF self.enable_telegram /\ ChatIdsMissing(self.telegram_chat_ids)
       THEN /\ err' = "ValueError"
            /\ pc' = "failed"
            /\ self' = self
       ELSE /\ self' = IF ImplicitEnable(self.telegram_token, self.telegram_chat_ids)
                       THEN [self EXCEPT !.enable_telegram = TRUE]
                       ELSE self
            /\ pc' = "attach_console"
            /\ err' = err
    /\ UNCHANGED <<handlers, dirs, files, console, jobs, sent, diag, calls>>

\* lines 161-168
NiceLogger_attach_console ==
    /\ pc = "attach_console"
    /\ handlers' = <<ConsoleHandler(self.name, self.fmt, self.colored)>>
    /\ pc' = "attach_file"
    /\ UNCHANGED <<self, err, dirs, files, console, jobs, sent, diag, calls>>

\* _make_folder
_make_folder(ds, folder) == IF folder \notin ds THEN ds \cup {folder} ELSE ds

\* lines 170-181; TimedRotatingFileHandler opens its file when it is built
NiceLogger_attach_file ==
    /\ pc = "attach_file"
    /\ IF self.enable_file = TRUE
       THEN LET made == _make_folder(dirs, self.log_folder)
                th   == FileHandler(self.name, self.fmt, self.colored, self.log_folder)
            IN  /\ dirs' = made
                /\ IF DirName(th.filename) \in made
                   THEN /\ files' = TouchFile(files, th.filename)
                        /\ handlers' = Append(handlers, th)
                        /\ pc' = "attach_telegram"
                        /\ err' = err
                   ELSE /\ err' = "FileNotFoundError"
                        /\ pc' = "failed"
                        /\ UNCHANGED <<files, handlers>>
       ELSE /\ pc' = "attach_telegram"
            /\ UNCHANGED <<dirs, files, handlers, err>>
    /\ UNCHANGED <<self, console, jobs, sent, diag, calls>>

\* lines 183-185
NiceLogger_attach_telegram ==
    /\ pc = "attach_telegram"
    /\ handlers' = IF self.enable_telegram
                   THEN Append(handlers, TelegramHandler(self.telegram_token.v,
                                   self.telegram_chat_ids.v, self.tele_run_async))
                   ELSE handlers
    /\ pc' = "ready"
    /\ UNCHANGED <<self, err, dirs, files, console, jobs, sent, diag, calls>>

(***************************************************************************)
(* Deliveries.  A job is one execution of TelegramHandler.send, or of      *)
(* BotLogger._send_message / _send_as_document, on the application thread  *)
(* (async = FALSE: the application thread is blocked in it) or on a thread *)
(* of its own.                                                             *)
(***************************************************************************)
TelegramHandler_MAX_LEN == 4096
BotLogger_MAX_LEN == 4096

\* the first 8 hex digits of a uuid4
RandNames == {"1a2b3c4d", "9f8e7d6c"}

\* a threshold test that sends a text of exactly max_len as a document
UseDocument_ge(msg, max_len) == Len(msg) >= max_len

\* lines 111 and 260: len(msg) > self._MAX_LEN
UseDocument(msg, max_len) == Len(msg) > max_len

\* a send whose except clause prints and raises again
TelegramHandler_send_reraise(e) == [caught |-> FALSE, printed |-> <<e>>]

\* lines 115-116: except Exception as e: print(e)
TelegramHandler_send_except(e) == [caught |-> TRUE, printed |-> <<e>>]

\* lines 270-271: except Exception as e: print(e)
BotLogger_log_except(e) == [caught |-> TRUE, printed |-> <<e>>]

\* an exception that leaves the target of a Thread ends the thread; nothing is printed to stdout
Thread_uncaught(e) == [caught |-> FALSE, printed |-> <<>>]

\* an emit that always sends on the calling thread
RunsAsync_never(run_async) == FALSE

\* lines 120 and 261/266: if self.run_async
RunsAsync(run_async) == run_async

\* TelegramHandler.emit: the execution of send it starts
TelegramHandler_emit(h, record) ==
    [owner |-> "TelegramHandler", handler |-> "send",
     text |-> TelegramHandler_format(h.fmt, record), chat_ids |-> h.chat_ids,
     mode |-> "undecided", doc |-> "", i |-> 1, status |-> "start", raised |-> "none",
     async |-> RunsAsync(h.run_async)]

RECURSIVE ConsoleLines(_, _)
\* what the console sinks among hs write for record, in order
ConsoleLines(hs, record) ==
    IF Len(hs) = 0 THEN <<>>
    ELSE (IF hs[1].kind = "console"
          THEN <<ColoredFormatter_format(hs[1].formats, record)>> ELSE <<>>)
         \o ConsoleLines(Tail(hs), record)

RECURSIVE FileWrites(_, _, _)
\* the files after the file sinks among hs wrote record
FileWrites(fs, hs, record) ==
    IF Len(hs) = 0 THEN fs
    ELSE FileWrites(IF hs[1].kind = "file"
                    THEN AppendFile(fs, hs[1].filename,
                                    ColoredFormatter_format(hs[1].formats, record))
                    ELSE fs,
                    Tail(hs), record)

RECURSIVE NewJobs(_, _)
\* the deliveries the notification sinks among hs start for record
NewJobs(hs, record) ==
    IF Len(hs) = 0 THEN <<>>
    ELSE (IF hs[1].kind = "telegram" THEN <<TelegramHandler_emit(hs[1], record)>> ELSE <<>>)
         \o NewJobs(Tail(hs), record)

Ops == {"debug", "info", "warning", "error", "critical", "exception"}

\* the level each method logs at (Logger.exception logs at ERROR)
LevelOf(op) ==
    CASE op = "debug"     -> "DEBUG"
      [] op = "info"      -> "INFO"
      [] op = "warning"   -> "WARNING"
      [] op = "error"     -> "ERROR"
      [] op = "critical"  -> "CRITICAL"
      [] op = "exception" -> "ERROR"

\* the line of the super() call of each method: the caller logging finds for the record
Lineno(op) ==
    CASE op = "info"      -> "199"
      [] op = "debug"     -> "203"
      [] op = "warning"   -> "207"
      [] op = "error"     -> "211"
      [] op = "critical"  -> "215"
      [] op = "exception" -> "219"

\* the tag when the caller gives none: the f_name default of each method
DefaultTag(op) == Some(op)

\* an argument the caller left out
NotGiven == [default |-> TRUE]

\* the binding of the f_name parameter of a method called op
BindTag(op, f_name) == IF f_name = NotGiven THEN DefaultTag(op) ELSE f_name

\* the record a leveled method hands to the sinks
MakeRecord(op, msg, f_name, args, kwargs, asctime, exc_text) ==
    [asctime |-> asctime, lineno |-> Lineno(op), levelname |-> LevelOf(op), funcName |-> op,
     message |-> _make_message(msg, f_name, args, kwargs),
     exc_text |-> IF op = "exception" THEN Some(exc_text) ELSE None]

AnyBlocking(js) == \E k \in 1..Len(js) : ~js[k].async

\* NiceLogger.debug/info/warning/error/critical/exception
NiceLogger_log(op, msg, f_name, args, kwargs, asctime, exc_text) ==
    /\ pc = "ready"
    /\ self.kind = "NiceLogger"
    /\ LET record == MakeRecord(op, msg, BindTag(op, f_name), args, kwargs, asctime, exc_text)
           new    == NewJobs(handlers, record)
       IN  /\ console' = console \o ConsoleLines(handlers, record)
           /\ files' = FileWrites(files, handlers, record)
           /\ jobs' = jobs \o new
           /\ pc' = IF AnyBlocking(new) THEN "blocked" ELSE "ready"
    /\ calls' = calls + 1
    /\ UNCHANGED <<self, handlers, err, dirs, sent, diag>>

\* BotLogger.log
BotLogger_log(msg, f_name, args, kwargs) ==
    /\ pc = "ready"
    /\ self.kind = "BotLogger"
    /\ LET text  == "[" \o self.name \o "]\n\n"
                    \o _make_message(msg, BindTag("log", f_name), args, kwargs)
           async == RunsAsync(self.run_async)
           job   == [owner |-> "BotLogger", handler |-> IF async THEN "thread" ELSE "log",
                     text |-> text, chat_ids |-> self.chat_ids,
                     mode |-> IF UseDocument(text, BotLogger_MAX_LEN)
                              THEN "document" ELSE "message",
                     doc |-> "", i |-> 1,
                     status |-> IF UseDocument(text, BotLogger_MAX_LEN)
                                THEN "start" ELSE "sending",
                     raised |-> "none", async |-> async]
       IN  /\ jobs' = Append(jobs, job)
           /\ pc' = IF async THEN "ready" ELSE "blocked"
    /\ calls' = calls + 1
    /\ UNCHANGED <<self, handlers, err, dirs, files, console, sent, diag>>

\* what happens to an exception e raised inside job j
Outcome(job, e) ==
    CASE job.handler = "send"   -> TelegramHandler_send_except(e)
      [] job.handler = "log"    -> BotLogger_log_except(e)
      [] job.handler = "thread" -> Thread_uncaught(e)

\* exception e is raised inside job j: the enclosing handler, the diagnostic, the caller
Raise(j, e) ==
    LET out == Outcome(jobs[j], e)
    IN  /\ jobs' = [jobs EXCEPT ![j].raised = e,
                                ![j].status = IF out.caught THEN "returned" ELSE "crashed"]
        /\ diag' = diag \o [k \in 1..Len(out.printed) |-> [job |-> j, text |-> out.printed[k]]]
        /\ IF jobs[j].async
           THEN UNCHANGED <<pc, err>>
           ELSE /\ pc' = "ready"
                /\ err' = IF out.caught THEN err ELSE e

\* the first steps of a delivery: the choice of mode (send), and in document mode the
\* temporary file (_send_as_document, lines 103-106 and 249-252)
JobBegin(j) ==
    /\ jobs[j].status = "start"
    /\ LET mode == IF jobs[j].mode = "undecided"
                   THEN (IF UseDocument(jobs[j].text, TelegramHandler_MAX_LEN)
                         THEN "document" ELSE "message")
                   ELSE jobs[j].mode
       IN  IF mode = "document"
           THEN \E rand_name \in RandNames :
                  LET path == "logs/" \o rand_name \o "-logs.txt"
                  IN  IF "logs" \in dirs
                      THEN /\ files' = WriteFile(files, path, jobs[j].text)
                           /\ jobs' = [jobs EXCEPT ![j].mode = mode, ![j].doc = path,
                                                   ![j].status = "sending"]
                           /\ UNCHANGED <<pc, err, diag>>
                      ELSE /\ Raise(j, "FileNotFoundError")
                           /\ files' = files
           ELSE /\ jobs' = [jobs EXCEPT ![j].mode = mode, ![j].status = "sending"]
                /\ UNCHANGED <<pc, err, diag, files>>
    /\ UNCHANGED <<self, handlers, dirs, console, sent, calls>>

\* a loop that would go on to the next destination after a failure (not what the code does)
JobSendOne_continue(j) ==
    /\ jobs[j].status = "sending"
    /\ jobs[j].i <= Len(jobs[j].chat_ids)
    /\ \E ok \in BOOLEAN :
         IF ok
         THEN /\ sent' = Append(sent, [job |-> j, chat_id |-> jobs[j].chat_ids[jobs[j].i],
                                       kind |-> jobs[j].mode,
                                       payload |-> IF jobs[j].mode = "document"
                                                   THEN jobs[j].doc ELSE jobs[j].text])
              /\ jobs' = [jobs EXCEPT ![j].i = @ + 1]
         ELSE /\ jobs' = [jobs EXCEPT ![j].i = @ + 1, ![j].raised = "TelegramError"]
              /\ sent' = sent
    /\ UNCHANGED <<pc, err, diag, self, handlers, dirs, files, console, calls>>

\* one turn of the loop of _send_message / _send_document: the transport accepts or raises
JobSendOne(j) ==
    /\ jobs[j].status = "sending"
    /\ jobs[j].i <= Len(jobs[j].chat_ids)
    /\ \E ok \in BOOLEAN :
         IF ok
         THEN /\ sent' = Append(sent, [job |-> j, chat_id |-> jobs[j].chat_ids[jobs[j].i],
                                       kind |-> jobs[j].mode,
                                       payload |-> IF jobs[j].mode = "document"
                                                   THEN jobs[j].doc ELSE jobs[j].text])
              /\ jobs' = [jobs EXCEPT ![j].i = @ + 1]
              /\ UNCHANGED <<pc, err, diag>>
         ELSE /\ Raise(j, "TelegramError")
              /\ sent' = sent
    /\ UNCHANGED <<self, handlers, dirs, files, console, calls>>

\* the loop is over: the delivery returns
JobReturn(j) ==
    /\ jobs[j].status = "sending"
    /\ jobs[j].i > Len(jobs[j].chat_ids)
    /\ jobs' = [jobs EXCEPT ![j].status = "returned"]
    /\ pc' = IF jobs[j].async THEN pc ELSE "ready"
    /\ UNCHANGED <<self, handlers, err, dirs, files, console, sent, diag, calls>>

(***************************************************************************)
(* Inputs.                                                                 *)
(***************************************************************************)
Names == {"app"}
Fmts == {_FORMAT, "%(message)s"}
Folders == {"logs", "out"}
Tokens == {None, Some("123:abc")}
\* the chat id lists a logger is built with
ChatIdLists == {None, Some(<<>>), Some(<<7>>)}
\* the chat id lists of a sink in use: empty, several, a duplicate
SinkChatIds == {<<>>, <<7, 8>>, <<7, 7>>}
Times == {"2026-11-05 08:00:00,000"}
ExcTexts == {"NoneType: None"}
Msgs == {"m"}
\* the methods the sink is driven through
SinkOps == {"info"}

\* the messages that take a text with this much around it to exactly max_len and to max_len + 1
BoundaryMsgs(overhead, max_len) == {Pad(max_len - overhead), Pad(max_len - overhead + 1)}

HandlerOverhead(op, f_name, asctime, exc_text) ==
    Len(TelegramHandler_format(TelegramHandler_fmt,
            MakeRecord(op, "", BindTag(op, f_name), <<>>, <<>>, asctime, exc_text)))

BotOverhead(name, f_name) ==
    Len("[" \o name \o "]\n\n" \o _make_message("", BindTag("log", f_name), <<>>, <<>>))

(***************************************************************************)
(* Spec: a NiceLogger from its construction on.                            *)
(***************************************************************************)
NotUsed == <<>>

\* no exception / nothing yet
NoExc == [type |-> "none", msg |-> ""]
NoExit == [seconds |-> 0, error_message |-> "", elapsed |-> 0, inner |-> FALSE, result |-> NoExc]

\* the signal state of a process that has not called a wrapped function yet
ProcessStart ==
    /\ alarm = 0
    /\ sigalrm = "SIG_DFL"
    /\ frames = <<>>
    /\ exc = NoExc
    /\ last = NoExit

Init ==
    /\ pc = "new"
    /\ self = None
    /\ handlers = <<>>
    /\ err = "none"
    /\ dirs \in {{}, {"logs"}}
    /\ files = NoFiles
    /\ console = <<>>
    /\ jobs = <<>>
    /\ sent = <<>>
    /\ diag = <<>>
    /\ calls = 0
    /\ mm = NotUsed
    /\ tasks = NotUsed
    /\ tcall = NotUsed
    /\ ProcessStart

Construct ==
    \E name \in Names, fmt \in Fmts, enable_file \in BOOLEAN, enable_telegram \in BOOLEAN,
       telegram_token \in Tokens, telegram_chat_ids \in ChatIdLists,
       tele_run_async \in BOOLEAN, colored \in BOOLEAN, log_folder \in Folders :
         NiceLogger_init(name, fmt, enable_file, enable_telegram, telegram_token,
                         telegram_chat_ids, tele_run_async, colored, log_folder)

LogCall ==
    /\ calls < MaxCalls
    /\ \E op \in Ops, msg \in Msgs, asctime \in Times, exc_text \in ExcTexts :
         NiceLogger_log(op, msg, NotGiven, <<>>, <<>>, asctime, exc_text)

Deliver ==
    \E j \in 1..Len(jobs) : JobBegin(j) \/ JobSendOne(j) \/ JobReturn(j)

Next ==
    \/ Construct /\ UNCHANGED <<mm, tasks, tcall, timeoutVars>>
    \/ NiceLogger_handle_telegram /\ UNCHANGED <<mm, tasks, tcall, timeoutVars>>
    \/ NiceLogger_attach_console /\ UNCHANGED <<mm, tasks, tcall, timeoutVars>>
    \/ NiceLogger_attach_file /\ UNCHANGED <<mm, tasks, tcall, timeoutVars>>
    \/ NiceLogger_attach_telegram /\ UNCHANGED <<mm, tasks, tcall, timeoutVars>>
    \/ LogCall /\ UNCHANGED <<mm, tasks, tcall, timeoutVars>>
    \/ Deliver /\ UNCHANGED <<mm, tasks, tcall, timeoutVars>>

Spec == Init /\ [][Next]_vars

(***************************************************************************)
(* SpecSink: an object with a notification sink, from the state its        *)
(* constructor leaves it in: a NiceLogger with the sink enabled and no     *)
(* file sink, or a BotLogger.                                              *)
(***************************************************************************)
\* the handlers NiceLogger.__init__ attaches for these fields (lines 161-185)
BuiltHandlers(o) ==
    <<ConsoleHandler(o.name, o.fmt, o.colored)>>
    \o (IF o.enable_file = TRUE
        THEN <<FileHandler(o.name, o.fmt, o.colored, o.log_folder)>> ELSE <<>>)
    \o (IF o.enable_telegram
        THEN <<TelegramHandler(o.telegram_token.v, o.telegram_chat_ids.v, o.tele_run_async)>>
        ELSE <<>>)

\* BotLogger.__init__
BotLogger(name, token, chat_ids, run_async) ==
    [kind |-> "BotLogger", name |-> name, token |-> token, chat_ids |-> chat_ids,
     run_async |-> run_async]

InitSink ==
    /\ pc = "ready"
    /\ \E chat_ids \in SinkChatIds, run_async \in BOOLEAN :
         \/ /\ self = [kind |-> "NiceLogger", name |-> "app", fmt |-> "%(message)s",
                       colored |-> FALSE, log_folder |-> "logs",
                       arg_enable_telegram |-> FALSE, enable_file |-> FALSE,
                       enable_telegram |-> TRUE, telegram_token |-> Some("123:abc"),
                       telegram_chat_ids |-> Some(chat_ids), tele_run_async |-> run_async]
            /\ handlers = BuiltHandlers(self)
         \/ /\ self = BotLogger("bot", "123:abc", chat_ids, run_async)
            /\ handlers = <<>>
    /\ err = "none"
    /\ dirs \in {{}, {"logs"}}
    /\ files = NoFiles
    /\ console = <<>>
    /\ jobs = <<>>
    /\ sent = <<>>
    /\ diag = <<>>
    /\ calls = 0
    /\ mm = NotUsed
    /\ tasks = NotUsed
    /\ tcall = NotUsed
    /\ ProcessStart

SinkLogCall ==
    /\ calls < MaxSinkCalls
    /\ \E op \in SinkOps, asctime \in Times, exc_text \in ExcTexts :
         \E msg \in BoundaryMsgs(HandlerOverhead(op, NotGiven, asctime, exc_text),
                                 TelegramHandler_MAX_LEN) :
            NiceLogger_log(op, msg, NotGiven, <<>>, <<>>, asctime, exc_text)

SinkBotCall ==
    /\ calls < MaxSinkCalls
    /\ \E msg \in BoundaryMsgs(BotOverhead("bot", NotGiven), BotLogger_MAX_LEN) :
         BotLogger_log(msg, NotGiven, <<>>, <<>>)

NextSink ==
    \/ SinkLogCall /\ UNCHANGED <<mm, tasks, tcall, timeoutVars>>
    \/ SinkBotCall /\ UNCHANGED <<mm, tasks, tcall, timeoutVars>>
    \/ Deliver /\ UNCHANGED <<mm, tasks, tcall, timeoutVars>>

SpecSink == InitSink /\ [][NextSink]_vars

(***************************************************************************)
(* SpecMsg: _make_message as the leveled methods and BotLogger.log call    *)
(* it, on inputs drawn from small sets.                                    *)
(***************************************************************************)
MsgOps == Ops \cup {"log"}
MsgTexts == {"", "x"}
MsgTags == {NotGiven, None, Some("t")}
MsgArgs == {<<>>, <<1>>, <<1, 2>>}
MsgKwargs == {<<>>, <<<<"k", 1>>>>, <<<<"k", 1>>, <<"j", 2>>>>}

\* positional context values follow the f_name parameter: they cannot be given without it
InitMsg ==
    /\ mm \in [op : MsgOps, msg : MsgTexts, f_name : MsgTags, args : MsgArgs,
               kwargs : MsgKwargs, out : {None}]
    /\ mm.args # <<>> => mm.f_name # NotGiven
    /\ pc = "new"
    /\ self = None
    /\ handlers = <<>>
    /\ err = "none"
    /\ dirs = {}
    /\ files = NoFiles
    /\ console = <<>>
    /\ jobs = <<>>
    /\ sent = <<>>
    /\ diag = <<>>
    /\ calls = 0
    /\ tasks = NotUsed
    /\ tcall = NotUsed
    /\ ProcessStart

\* the first line of every leveled method and of BotLogger.log
Compose ==
    /\ mm.out = None
    /\ mm' = [mm EXCEPT !.out = Some(_make_message(mm.msg, BindTag(mm.op, mm.f_name),
                                                   mm.args, mm.kwargs))]
    /\ UNCHANGED <<loggerVars, tasks, tcall, timeoutVars>>

NextMsg == Compose

SpecMsg == InitMsg /\ [][NextMsg]_vars

(***************************************************************************)
(* SpecThread: thread_tools.  A callable is [params, outcome]: the number  *)
(* of positional arguments it takes, and what a call with that many does.  *)
(***************************************************************************)
PyBool(b) == [bool |-> b]
PyInt(n) == [int |-> n]

\* bool(x)
Truthy(x) == IF "bool" \in DOMAIN x THEN x.bool ELSE x.int # 0

Returns(v) == [kind |-> "return", v |-> v]
Raises(e) == [kind |-> "raise", e |-> e]

Funcs == [params : {0, 1}, outcome : {Returns(42), Raises("ValueError")}]
ArgLists == {<<>>, <<PyInt(0)>>, <<PyInt(5)>>}

\* func(*args)
CallFunc(func, args) ==
    IF Len(args) # func.params THEN Raises("TypeError") ELSE func.outcome

Idle == [state |-> "idle"]

InitThread ==
    /\ tasks = <<>>
    /\ tcall = Idle
    /\ ProcessStart
    /\ mm = NotUsed
    /\ pc = "new"
    /\ self = None
    /\ handlers = <<>>
    /\ err = "none"
    /\ dirs = {}
    /\ files = NoFiles
    /\ console = <<>>
    /\ jobs = <<>>
    /\ sent = <<>>
    /\ diag = <<>>
    /\ calls = 0

NewTask(func, args) == [func |-> func, args |-> args, state |-> "pending", outcome |-> None]

\* the application thread is not inside a call, and may make another
CanCall == tcall.state # "waiting" /\ Len(tasks) < MaxTasks

\* the body of run_in_threadpool, called through api by a caller that passed call_args
run_in_threadpool_body(api, func, return_result, args, call_args) ==
    /\ tasks' = Append(tasks, NewTask(func, args))
    /\ tcall' = IF Truthy(return_result)
                THEN [state |-> "waiting", api |-> api, func |-> func, args |-> call_args,
                      return_result |-> return_result, task |-> Len(tasks) + 1]
                ELSE [state |-> "returned", api |-> api, func |-> func, args |-> call_args,
                      return_result |-> return_result, task |-> Len(tasks) + 1,
                      value |-> None, task_done |-> FALSE]

\* run_in_threadpool(func, return_result, *args)
run_in_threadpool(func, return_result, args) ==
    /\ CanCall
    /\ run_in_threadpool_body("run_in_threadpool", func, return_result, args, args)
    /\ UNCHANGED <<loggerVars, mm, timeoutVars>>

\* the body of run_in_thread
run_in_thread_body(api, func, args) ==
    /\ tasks' = Append(tasks, NewTask(func, args))
    /\ tcall' = [state |-> "returned", api |-> api, func |-> func, args |-> args,
                 return_result |-> PyBool(FALSE), task |-> Len(tasks) + 1,
                 value |-> None, task_done |-> FALSE]

\* run_in_thread(func, *args)
run_in_thread(func, args) ==
    /\ CanCall
    /\ run_in_thread_body("run_in_thread", func, args)
    /\ UNCHANGED <<loggerVars, mm, timeoutVars>>

\* run_in_thread_decorator(func)(*args)
run_in_thread_decorator(func, args) ==
    /\ CanCall
    /\ run_in_thread_body("run_in_thread_decorator", func, args)
    /\ UNCHANGED <<loggerVars, mm, timeoutVars>>

\* run_in_threadpool_decorator(func)(*args): the wrapper calls
\* run_in_threadpool(func, *args), whose second parameter is return_result
run_in_threadpool_decorator(func, args) ==
    /\ CanCall
    /\ IF Len(args) = 0
       THEN run_in_threadpool_body("run_in_threadpool_decorator", func, PyBool(FALSE),
                                   <<>>, args)
       ELSE run_in_threadpool_body("run_in_threadpool_decorator", func, args[1],
                                   Tail(args), args)
    /\ UNCHANGED <<loggerVars, mm, timeoutVars>>

\* a thread or a pool worker runs the callable to its end
TaskRun(k) ==
    /\ tasks[k].state = "pending"
    /\ tasks' = [tasks EXCEPT ![k].state = "done",
                              ![k].outcome = Some(CallFunc(tasks[k].func, tasks[k].args))]
    /\ UNCHANGED <<loggerVars, mm, tcall, timeoutVars>>

\* Future.result() of line 38 gets the outcome; a wrapper drops a returned value
ResultReady ==
    /\ tcall.state = "waiting"
    /\ tasks[tcall.task].state = "done"
    /\ LET out == tasks[tcall.task].outcome.v
       IN  tcall' = IF out.kind = "raise"
                    THEN [state |-> "raised", api |-> tcall.api, func |-> tcall.func,
                          args |-> tcall.args, return_result |-> tcall.return_result,
                          task |-> tcall.task, e |-> out.e, task_done |-> TRUE]
                    ELSE [state |-> "returned", api |-> tcall.api, func |-> tcall.func,
                          args |-> tcall.args, return_result |-> tcall.return_result,
                          task |-> tcall.task,
                          value |-> IF tcall.api = "run_in_threadpool"
                                    THEN Some(out.v) ELSE None,
                          task_done |-> TRUE]
    /\ UNCHANGED <<loggerVars, mm, tasks, timeoutVars>>

NextThread ==
    \/ \E func \in Funcs, return_result \in BOOLEAN, args \in ArgLists :
         run_in_threadpool(func, PyBool(return_result), args)
    \/ \E func \in Funcs, args \in ArgLists : run_in_thread(func, args)
    \/ \E func \in Funcs, args \in ArgLists : run_in_thread_decorator(func, args)
    \/ \E func \in Funcs, args \in ArgLists : run_in_threadpool_decorator(func, args)
    \/ \E k \in 1..Len(tasks) : TaskRun(k)
    \/ ResultReady

SpecThread == InitThread /\ [][NextThread]_vars

(***************************************************************************)
(* SpecTimeout: timeout_decorator (func_tools.py).  SIGALRM, its handler   *)
(* and its alarm belong to the process; signal.signal only works in the    *)
(* main thread, so the wrapped calls that are running are nested in one    *)
(* another on that thread.  Time advances in whole seconds.                *)
(***************************************************************************)
Seconds == {0, 1, 2}
ErrorMessages == {"Timed Out!", "slow"}

\* _handle_timeout (lines 16-17): what the handler a wrapper installs raises
_handle_timeout(error_message) == [type |-> "TimeoutError", msg |-> error_message]

\* a wrapper that would cancel the alarm after a return only (not what the code does)
wrapper_finally_on_return(pending, result) ==
    IF result.type = "return" THEN 0 ELSE pending

\* the finally clause (lines 24-25): signal.alarm(0), however the body ended
wrapper_finally(pending, result) == 0

Returned == [type |-> "return", msg |-> ""]
BodyErrors == {[type |-> "ValueError", msg |-> ""]}

\* the innermost running wrapped call, and the calls around it
Top == frames[Len(frames)]
Outer == SubSeq(frames, 1, Len(frames) - 1)

\* the record of a wrapped call that exits with the given result
Exit(f, result) ==
    [seconds |-> f.seconds, error_message |-> f.error_message, elapsed |-> f.elapsed,
     inner |-> f.inner, result |-> result]

InitTimeout ==
    /\ ProcessStart
    /\ mm = NotUsed
    /\ tasks = NotUsed
    /\ tcall = NotUsed
    /\ pc = "new"
    /\ self = None
    /\ handlers = <<>>
    /\ err = "none"
    /\ dirs = {}
    /\ files = NoFiles
    /\ console = <<>>
    /\ jobs = <<>>
    /\ sent = <<>>
    /\ diag = <<>>
    /\ calls = 0

\* wrapper, lines 19-21: install the handler, arm the alarm, enter the body.  The call is
\* made by the application or from the body of the innermost running wrapped call.
wrapper_enter(seconds, error_message) ==
    /\ exc = NoExc
    /\ Len(frames) < MaxDepth
    /\ sigalrm' = error_message
    /\ alarm' = seconds
    /\ frames' = [k \in 1..Len(frames) |->
                     IF k = Len(frames) THEN [frames[k] EXCEPT !.inner = TRUE] ELSE frames[k]]
                 \o <<[seconds |-> seconds, error_message |-> error_message,
                       elapsed |-> 0, inner |-> FALSE]>>
    /\ UNCHANGED <<exc, last>>

\* one second passes while the innermost body runs; when the pending alarm expires the
\* process receives SIGALRM and the installed handler raises in the innermost body
\* (line 17), whose wrapper runs its finally clause and lets the exception out
Tick ==
    /\ exc = NoExc
    /\ frames # <<>>
    /\ \A k \in 1..Len(frames) : frames[k].elapsed < MaxElapsed
    /\ LET aged == [k \in 1..Len(frames) |-> [frames[k] EXCEPT !.elapsed = @ + 1]]
       IN  IF alarm = 1
           THEN LET e == _handle_timeout(sigalrm)
                IN  /\ exc' = e
                    /\ alarm' = wrapper_finally(0, e)
                    /\ last' = Exit(aged[Len(aged)], e)
                    /\ frames' = SubSeq(aged, 1, Len(aged) - 1)
           ELSE /\ alarm' = IF alarm = 0 THEN 0 ELSE alarm - 1
                /\ frames' = aged
                /\ UNCHANGED <<exc, last>>
    /\ UNCHANGED sigalrm

\* the innermost body returns (line 23): finally, then return result (lines 25-26)
func_return ==
    /\ exc = NoExc
    /\ frames # <<>>
    /\ alarm' = wrapper_finally(alarm, Returned)
    /\ last' = Exit(Top, Returned)
    /\ frames' = Outer
    /\ UNCHANGED <<sigalrm, exc>>

\* the innermost body raises an exception of its own (line 23): finally, then it propagates
func_raise ==
    /\ exc = NoExc
    /\ frames # <<>>
    /\ \E e \in BodyErrors :
         /\ exc' = e
         /\ alarm' = wrapper_finally(alarm, e)
         /\ last' = Exit(Top, e)
    /\ frames' = Outer
    /\ UNCHANGED sigalrm

\* the exception let out by a wrapped call arrives in the body that made the call: that
\* body handles it and goes on, or it leaves through the wrapper's finally (lines 24-25)
func_propagate ==
    /\ exc # NoExc
    /\ frames # <<>>
    /\ \E handled \in BOOLEAN :
         IF handled
         THEN /\ exc' = NoExc
              /\ UNCHANGED <<alarm, frames, last>>
         ELSE /\ alarm' = wrapper_finally(alarm, exc)
              /\ last' = Exit(Top, exc)
              /\ frames' = Outer
              /\ exc' = exc
    /\ UNCHANGED sigalrm

\* the exception reaches the application, outside every wrapped call
app_except ==
    /\ exc # NoExc
    /\ frames = <<>>
    /\ exc' = NoExc
    /\ UNCHANGED <<alarm, sigalrm, frames, last>>

NextTimeout ==
    \/ (\E seconds \in Seconds, error_message \in ErrorMessages :
          wrapper_enter(seconds, error_message)) /\ UNCHANGED <<loggerVars, mm, tasks, tcall>>
    \/ Tick /\ UNCHANGED <<loggerVars, mm, tasks, tcall>>
    \/ func_return /\ UNCHANGED <<loggerVars, mm, tasks, tcall>>
    \/ func_raise /\ UNCHANGED <<loggerVars, mm, tasks, tcall>>
    \/ func_propagate /\ UNCHANGED <<loggerVars, mm, tasks, tcall>>
    \/ app_except /\ UNCHANGED <<loggerVars, mm, tasks, tcall>>

SpecTimeout == InitTimeout /\ [][NextTimeout]_vars

(***************************************************************************)
(* Properties.                                                             *)
(***************************************************************************)
JobIds == 1..Len(jobs)

\* C1: every text handed to the notification sink goes out as a document if and only if
\* it is longer than 4096 characters, and as a plain message otherwise: the mode a
\* delivery settles on, and the kind of every transport call made for it, follow the
\* length of its text (4096 characters: a message; 4097: a document).
C1_ModeFollowsLength ==
    /\ \A j \in JobIds :
         jobs[j].mode # "undecided" =>
            (jobs[j].mode = "document" <=> Len(jobs[j].text) > 4096)
    /\ \A k \in 1..Len(sent) :
         /\ sent[k].kind = "document" <=> Len(jobs[sent[k].job].text) > 4096
         /\ sent[k].kind = "message" <=> Len(jobs[sent[k].job].text) <= 4096
         /\ sent[k].kind = "message" => sent[k].payload = jobs[sent[k].job].text

\* C1 witness: a text of exactly 4096 characters was sent as a message and one of 4097
\* characters as a document.
C1_Witness ==
    /\ \E k \in 1..Len(sent) :
         sent[k].kind = "message" /\ Len(jobs[sent[k].job].text) = 4096
    /\ \E k \in 1..Len(sent) :
         sent[k].kind = "document" /\ Len(jobs[sent[k].job].text) = 4097

\* the constructor was asked for the notification sink and given no credential
C2_Case == pc # "new" /\ self.arg_enable_telegram /\ self.telegram_token = None

\* C2: a NiceLogger built with the enable flag set and no token fails with the
\* configuration error (ValueError) in its validation; up to and after that moment no
\* sink is attached and no folder or file is created, and it never gets past validation.
C2_MissingCredentialFailsFirst ==
    [][ (pc' # "new" /\ self'.arg_enable_telegram /\ self'.telegram_token = None) =>
          /\ pc' \in {"handle_telegram", "failed"}
          /\ pc' = "failed" => err' = "ValueError"
          /\ handlers' = <<>>
          /\ dirs' = dirs
          /\ files' = files ]_vars

\* C2 witness: such a construction, with file logging asked for, has failed.
C2_Witness ==
    /\ C2_Case
    /\ pc = "failed"
    /\ err = "ValueError"
    /\ self.enable_file
    /\ self.telegram_chat_ids # None

IsTelegram(h) == h.kind = "telegram"

\* C3: a NiceLogger built with the enable flag set and a token, but with a missing or an
\* empty destination list, fails with the configuration error and gets no notification sink.
C3_DestinationsRequired ==
    (/\ pc # "new"
     /\ self.arg_enable_telegram
     /\ self.telegram_token # None
     /\ self.telegram_chat_ids \in {None, Some(<<>>)})
    => /\ pc \in {"handle_telegram", "failed"}
       /\ pc = "failed" => err = "ValueError"
       /\ \A k \in 1..Len(handlers) : ~IsTelegram(handlers[k])

\* the kinds of sink a constructed logger is to own, in order
C4_Expected ==
    <<"console">>
    \o (IF self.enable_file THEN <<"file">> ELSE <<>>)
    \o (IF self.arg_enable_telegram
           \/ (self.telegram_token # None /\ self.telegram_chat_ids # None)
        THEN <<"telegram">> ELSE <<>>)

\* C4: a constructed NiceLogger owns the console sink, then the file sink iff enable_file,
\* then the notification sink iff the flag was set or token and chat ids were both given;
\* this is so after any logging calls and deliveries as well.
C4_SinkSet ==
    (pc \in {"ready", "blocked"} /\ self.kind = "NiceLogger") =>
        /\ Len(handlers) = Len(C4_Expected)
        /\ \A k \in 1..Len(handlers) : handlers[k].kind = C4_Expected[k]

\* C4 witness: a logger with all three sinks, the notification sink enabled implicitly,
\* has logged and its delivery has returned.
C4_Witness ==
    /\ pc = "ready"
    /\ ~self.arg_enable_telegram
    /\ Len(handlers) = 3
    /\ calls >= 1
    /\ \E j \in JobIds : jobs[j].status = "returned"

DiagOf(j) == {k \in 1..Len(diag) : diag[k].job = j}

\* C5: an error raised by the transport or by the temporary-file write inside
\* TelegramHandler.send never leaves send: send returns, nothing reaches its caller, and
\* exactly one diagnostic, that error, has been printed; without an error nothing is printed.
C5_SendSwallowsErrors ==
    /\ self.kind = "NiceLogger" => err = "none"
    /\ \A j \in JobIds :
         jobs[j].handler = "send" =>
            /\ jobs[j].status # "crashed"
            /\ jobs[j].raised # "none" =>
                  /\ jobs[j].status = "returned"
                  /\ Cardinality(DiagOf(j)) = 1
                  /\ \A k \in DiagOf(j) : diag[k].text = jobs[j].raised
            /\ jobs[j].raised = "none" => DiagOf(j) = {}

\* C5 witness: one send failed at its second destination after the first was served, and
\* another failed writing its temporary file; both have returned.
C5_Witness ==
    /\ \E j \in JobIds :
         /\ jobs[j].handler = "send"
         /\ jobs[j].raised = "TelegramError"
         /\ jobs[j].i = 2
         /\ jobs[j].status = "returned"
    /\ \E j \in JobIds :
         /\ jobs[j].handler = "send"
         /\ jobs[j].raised = "FileNotFoundError"
         /\ jobs[j].status = "returned"

\* the sink in use was built for asynchronous dispatch
AsyncSink ==
    \/ self.kind = "NiceLogger" /\ self.tele_run_async
    \/ self.kind = "BotLogger" /\ self.run_async

\* C6: with asynchronous dispatch the application thread is never blocked in a delivery
\* and nothing a delivery does reaches it: every delivery runs on a thread of its own, no
\* exception is raised to the caller whatever the deliveries come to, and a logging call
\* returns with its delivery not yet begun and with no transport call made in that step.
C6_AsyncNeverObserved ==
    /\ [](AsyncSink => /\ pc = "ready"
                       /\ err = "none"
                       /\ \A j \in JobIds : jobs[j].async)
    /\ [][ (AsyncSink /\ calls' # calls) =>
             /\ pc' = "ready"
             /\ sent' = sent
             /\ diag' = diag
             /\ Len(jobs') = Len(jobs) + 1
             /\ jobs'[Len(jobs')].i = 1
             /\ jobs'[Len(jobs')].status \in {"start", "sending"}
             /\ \A j \in JobIds : jobs'[j] = jobs[j] ]_vars

\* C6 witness: two background deliveries overlap, one part-way through its destinations
\* and one ended by an error, and the application thread has both calls behind it.
C6_Witness ==
    /\ AsyncSink
    /\ pc = "ready"
    /\ calls = 2
    /\ \E j1, j2 \in JobIds :
         /\ j1 # j2
         /\ jobs[j1].status = "sending" /\ jobs[j1].i = 2
         /\ jobs[j2].raised # "none"

\* the tag of a composed text: the one given, or the name of the operation
C7_Tag == IF mm.f_name = NotGiven THEN mm.op ELSE PyStr(mm.f_name)

C8_ThreadContract ==
    tcall.state # "idle" =>
        IF tcall.api = "run_in_threadpool" /\ Truthy(tcall.return_result)
        THEN /\ tcall.state = "returned" =>
                  /\ tasks[tcall.task].state = "done"
                  /\ CallFunc(tcall.func, tcall.args).kind = "return"
                  /\ tcall.value = Some(CallFunc(tcall.func, tcall.args).v)
             /\ tcall.state = "raised" =>
                  /\ CallFunc(tcall.func, tcall.args).kind = "raise"
                  /\ tcall.e = CallFunc(tcall.func, tcall.args).e
        ELSE /\ tcall.state = "returned"
             /\ tcall.value = None
             /\ ~tcall.task_done

\* C9: with file logging enabled the constructor creates <log_folder> and the file sink
\* writes to <log_folder>/<name>-logs, whatever log_folder is.
C9_FileUnderLogFolder ==
    (/\ pc \in {"attach_telegram", "ready", "blocked", "failed"}
     /\ err # "ValueError"
     /\ self.enable_file)
    => /\ pc # "failed"
       /\ self.log_folder \in dirs
       /\ \E k \in 1..Len(handlers) :
            /\ handlers[k].kind = "file"
            /\ handlers[k].filename = self.log_folder \o "/" \o self.name \o "-logs"
            /\ handlers[k].filename \in DOMAIN files

\* the start code of each level
C10_Code(level) ==
    CASE level = "DEBUG"    -> ESC \o "[94m"
      [] level = "INFO"     -> ESC \o "[90m"
      [] level = "WARNING"  -> ESC \o "[93m"
      [] level = "ERROR"    -> ESC \o "[91m"
      [] level = "CRITICAL" -> ESC \o "[31;1m"

\* C10: for each of the five levels the template of the console sink is, with colorization,
\* one level-specific start code, the body "[name] - fmt", one reset code, and without
\* it the body alone; the template of the file sink is the body alone whatever the
\* colorize flag; the body carries no escape, and no line the file sink wrote carries one.
C10_Templates ==
    (pc \in {"attach_file", "attach_telegram", "ready", "blocked"}) =>
        LET body == "[" \o self.name \o "] - " \o self.fmt
        IN  /\ CountEsc(body) = 0
            /\ \A level \in Levels : CountEsc(C10_Code(level)) = 1
            /\ \A l1, l2 \in Levels : C10_Code(l1) = C10_Code(l2) => l1 = l2
            /\ \A k \in 1..Len(handlers) : \A level \in Levels :
                 /\ (handlers[k].kind = "console" /\ self.colored) =>
                       handlers[k].formats[level] = C10_Code(level) \o body \o ESC \o "[0m"
                 /\ (handlers[k].kind = "console" /\ ~self.colored) =>
                       handlers[k].formats[level] = body
                 /\ handlers[k].kind = "file" => handlers[k].formats[level] = body
            /\ \A k \in 1..Len(handlers) :
                 handlers[k].kind = "file" =>
                    \A n \in 1..Len(files[handlers[k].filename]) :
                       CountEsc(files[handlers[k].filename][n]) = 0

\* C10 witness: a logger with colorization on has written a record to its console, with
\* the escapes, and to its file, without.
C10_Witness ==
    /\ pc = "ready"
    /\ self.colored
    /\ Len(console) = 1
    /\ CountEsc(console[1]) = 2
    /\ \E k \in 1..Len(handlers) :
         /\ handlers[k].kind = "file"
         /\ Len(files[handlers[k].filename]) = 1


(***************************************************************************)
(* C11: the order and the extent of the deliveries of one call.            *)
(***************************************************************************)
\* what the transport accepted from delivery j, in order
SentOf(log, j) == SelectSeq(log, LAMBDA s : s.job = j)

\* delivery j is over
Ended(j) == jobs[j].status \in {"returned", "crashed"}

\* C11: within one delivery over its destination list (duplicates counted), what the
\* transport has accepted is a prefix of the list, in list order, one delivery per listed
\* entry; a delivery that the transport failed at its Nth destination has ended with
\* exactly the first N-1 served and serves nobody afterwards; a delivery that ended
\* without a failure served every listed destination once.  In document mode the
\* temporary file is written in one step, once, before anything is delivered, and it
\* holds the text when the deliveries are made; a delivery that failed writing the file
\* served nobody.
C11_OrderedUntilFirstFailure ==
    /\ [](\A j \in JobIds :
            LET s == SentOf(sent, j)
                n == Len(s)
                d == jobs[j].chat_ids
            IN  /\ n = jobs[j].i - 1
                /\ n <= Len(d)
                /\ \A k \in 1..n : /\ s[k].chat_id = d[k]
                                   /\ s[k].kind = jobs[j].mode
                                   /\ s[k].payload = IF jobs[j].mode = "document"
                                                     THEN jobs[j].doc ELSE jobs[j].text
                /\ jobs[j].raised = "TelegramError" => Ended(j) /\ n < Len(d)
                /\ jobs[j].raised = "FileNotFoundError" => Ended(j) /\ n = 0
                /\ (Ended(j) /\ jobs[j].raised = "none") => n = Len(d)
                /\ (jobs[j].mode = "document" /\ n > 0) =>
                      /\ jobs[j].doc \in DOMAIN files
                      /\ files[jobs[j].doc] = <<jobs[j].text>>)
    /\ [][ /\ \A j \in JobIds :
                /\ Ended(j) => jobs'[j] = jobs[j] /\ SentOf(sent', j) = SentOf(sent, j)
                /\ jobs[j].status # "start" => jobs'[j].status # "start"
           /\ sent' # sent =>
                \E j \in JobIds :
                   /\ jobs[j].i <= Len(jobs[j].chat_ids)
                   /\ Len(sent') = Len(sent) + 1
                   /\ SubSeq(sent', 1, Len(sent)) = sent
                   /\ sent'[Len(sent')].job = j
                   /\ sent'[Len(sent')].chat_id = jobs[j].chat_ids[jobs[j].i]
                   /\ files' = files
           /\ files' # files =>
                \E j \in JobIds :
                   /\ jobs[j].status = "start"
                   /\ jobs'[j].status = "sending"
                   /\ jobs'[j].mode = "document"
                   /\ files'[jobs'[j].doc] = <<jobs[j].text>>
                   /\ SentOf(sent, j) = <<>>
                   /\ sent' = sent ]_vars

\* C11 witness: over the list <<7, 8>>, one delivery in document mode ended without a
\* failure after serving 7 and then 8 from a temporary file that holds its text, and
\* another was failed by the transport at its second destination after serving 7 only.
C11_Witness ==
    /\ \E j \in JobIds :
         /\ jobs[j].chat_ids = <<7, 8>>
         /\ jobs[j].mode = "document"
         /\ Ended(j)
         /\ jobs[j].raised = "none"
         /\ Len(SentOf(sent, j)) = 2
         /\ SentOf(sent, j)[1].chat_id = 7
         /\ SentOf(sent, j)[2].chat_id = 8
         /\ files[jobs[j].doc] = <<jobs[j].text>>
    /\ \E j \in JobIds :
         /\ jobs[j].chat_ids = <<7, 8>>
         /\ jobs[j].raised = "TelegramError"
         /\ Ended(j)
         /\ Len(SentOf(sent, j)) = 1
         /\ SentOf(sent, j)[1].chat_id = 7


(***************************************************************************)
(* C12: the deadline of a wrapped call.                                    *)
(***************************************************************************)
\* the only wrapped call running, whose body has not made a wrapped call itself
SoleCall ==
    /\ Len(frames) = 1
    /\ ~frames[1].inner
    /\ exc = NoExc

\* whenever a wrapped call exits, by return or by an exception, no alarm is pending
\* afterwards; entering a wrapped call replaces whatever deadline was pending by its own
C12_ExitCancels ==
    [][ /\ Len(frames') < Len(frames) => alarm' = 0
        /\ Len(frames') > Len(frames) =>
              /\ alarm' = frames'[Len(frames')].seconds
              /\ sigalrm' = frames'[Len(frames')].error_message ]_vars

\* the process has at most one deadline: a pending alarm is the deadline of the innermost
\* running call, armed by it and counted from its entry; a call whose body has made a
\* wrapped call has no deadline any more, and outside wrapped calls none is pending
C12_OneDeadline ==
    /\ frames = <<>> => alarm = 0
    /\ exc # NoExc => alarm = 0
    /\ frames # <<>> =>
          /\ Top.inner => alarm = 0
          /\ alarm > 0 => /\ ~Top.inner
                          /\ alarm = Top.seconds - Top.elapsed
                          /\ sigalrm = Top.error_message

\* C12 as stated: a wrapped call that is the only one active does not run past its
\* deadline (it is ended by the timeout error no later than the deadline), whenever a
\* wrapped call exits no alarm is pending, and with nested calls the process still has a
\* single deadline, that of the innermost call.
C12_TimesOutAtDeadline ==
    /\ [](/\ SoleCall => (frames[1].elapsed < frames[1].seconds \/ frames[1].elapsed = 0)
          /\ C12_OneDeadline)
    /\ C12_ExitCancels

\* C12, amended: the same for deadlines of one second or more: such a call, when it is
\* the only one active, has its deadline pending from its entry and is ended by the
\* timeout error, carrying its own message, exactly when the deadline is reached.  A
\* wrapped call with seconds = 0 arms nothing (signal.alarm(0) only cancels) and is never
\* timed out.
C12_PositiveDeadlineTimesOut ==
    /\ [](/\ SoleCall =>
               IF frames[1].seconds >= 1
               THEN /\ frames[1].elapsed < frames[1].seconds
                    /\ alarm = frames[1].seconds - frames[1].elapsed
                    /\ sigalrm = frames[1].error_message
               ELSE alarm = 0
          /\ (last.result.type = "TimeoutError" /\ ~last.inner) =>
               /\ last.seconds >= 1
               /\ last.elapsed = last.seconds
               /\ last.result = _handle_timeout(last.error_message)
          /\ C12_OneDeadline)
    /\ C12_ExitCancels

\* C12 witness: a wrapped call with a deadline of one second or more made a wrapped call
\* that was ended by the timeout error at its own deadline; the outer body handled the
\* error and is running past its own deadline with no alarm pending.
C12_Witness ==
    /\ Len(frames) = 1
    /\ exc = NoExc
    /\ frames[1].inner
    /\ frames[1].seconds >= 1
    /\ frames[1].elapsed > frames[1].seconds
    /\ alarm = 0
    /\ last.result.type = "TimeoutError"
    /\ ~last.inner
    /\ last.elapsed = last.seconds

=============================================================================
